---- MODULE Spec2Model ----
(***************************************************************************)
(* Model of the root-reader crate: the file header parser and directory    *)
(* walk of RootFile::new (src/src/lib.rs) and the key record parser and    *)
(* payload operations of RootKey (src/src/entry.rs).                       *)
(*                                                                         *)
(* Every integer of the program is kept as the big-endian byte string it   *)
(* has on disk, zero-extended to 8 bytes (a u64), so that 2^31, 2^32 - 1   *)
(* and wrapped 64-bit values are ordinary values of the model.  usize is   *)
(* taken to be 64 bits wide.  The byte stream behaves like                 *)
(* std::io::Cursor / std::fs::File: read() returns the bytes that are      *)
(* left (possibly fewer than asked), read_exact() fails on a short read,   *)
(* and seek() accepts any offset.                                          *)
(***************************************************************************)
EXTENDS Integers, Sequences, FiniteSets, TLC

VARIABLES
    build,      \* "debug" (overflow checks on) or "release" (wrapping arithmetic)
    stream,     \* the bytes behind the reader
    pos,        \* the reader's position
    pc,         \* where RootFile::new is: "start", "walk", "done"
    hdr,        \* the header fields RootFile::new has read
    pointer,    \* lib.rs:106
    keys,       \* lib.rs:107, the list the walk builds
    records,    \* every RootKey that RootKey::new has returned, in order
    tot_len,    \* lib.rs:109
    result,     \* what RootFile::new returned: tag "none" while it runs
    parse,      \* the last call of RootKey::new: its begin and what it returned
    op          \* the last payload operation: its kind, its key, whether it repeats
                \* one that failed, whether it found the reader away from obj_begin,
                \* and what it returned

vars ==
    <<build, stream, pos, pc, hdr, pointer, keys, records, tot_len, result, parse, op>>

----------------------------------------------------------------------------
(* Fixed-width unsigned integers as big-endian byte strings.               *)

Zero64 == <<0, 0, 0, 0, 0, 0, 0, 0>>

Two31 == <<0, 0, 0, 0, 128, 0, 0, 0>>

\* `x as u64` of a big-endian byte string of at most 8 bytes.
Ext(bs) == SubSeq(Zero64, 1, 8 - Len(bs)) \o bs

RECURSIVE LessFrom(_, _, _)
LessFrom(a, b, i) ==
    IF i > 8 THEN FALSE
    ELSE IF a[i] # b[i] THEN a[i] < b[i]
    ELSE LessFrom(a, b, i + 1)

Less(a, b) == LessFrom(a, b, 1)

Leq(a, b) == ~Less(b, a)

\* The digits of a + b + c from byte i leftwards, after the carry out of byte 1.
RECURSIVE AddDigits(_, _, _, _)
AddDigits(a, b, i, c) ==
    IF i = 0 THEN <<c>>
    ELSE Append(AddDigits(a, b, i - 1, (a[i] + b[i] + c) \div 256), (a[i] + b[i] + c) % 256)

Carried(r) == [val |-> Tail(r), over |-> r[1] = 1]

\* a + b modulo 2^64, and whether the exact sum needed a 65th bit.
Add64(a, b) == Carried(AddDigits(a, b, 8, 0))

\* The digits of a - b - c from byte i leftwards, after the borrow out of byte 1.
RECURSIVE SubDigits(_, _, _, _)
SubDigits(a, b, i, c) ==
    IF i = 0 THEN <<c>>
    ELSE Append(SubDigits(a, b, i - 1, IF a[i] - b[i] - c < 0 THEN 1 ELSE 0),
                (a[i] - b[i] - c + 256) % 256)

\* a - b modulo 2^64, and whether a < b.
Sub64(a, b) == Carried(SubDigits(a, b, 8, 0))

IsSmall(a) == \A i \in 1..5 : a[i] = 0

\* The number a stands for, for the values that are used as lengths and indexes.
ToNat(a) ==
    IF IsSmall(a) THEN a[6] * 65536 + a[7] * 256 + a[8]
    ELSE CHOOSE n \in {} : TRUE

FromNat(n) ==
    <<0, 0, 0, 0, 0, (n \div 65536) % 256, (n \div 256) % 256, n % 256>>

\* Does a u32 + u32 sum (held in 8 bytes) fit in 32 bits?
Fits32(a) == \A i \in 1..4 : a[i] = 0

Wrap32(a) == <<0, 0, 0, 0>> \o SubSeq(a, 5, 8)

Min(a, b) == IF a < b THEN a ELSE b

----------------------------------------------------------------------------
(* The byte stream: `head` at offset 0, then zero bytes up to `base`, then *)
(* `body`.  Its length, base + Len(body), is kept in `len`.                *)

StreamLen(s) == s.len

\* How many bytes a read of n bytes at p returns, `left` bytes being left.
CountOf(left, n) == IF IsSmall(left) THEN Min(n, ToNat(left)) ELSE n

ReadCount(s, p, n) ==
    IF Leq(StreamLen(s), p) THEN 0 ELSE CountOf(Sub64(StreamLen(s), p).val, n)

Zeros(n) == SubSeq([i \in 1..n |-> 0], 1, n)

HeadPart(part, c) == part \o Zeros(c - Len(part))

\* The c bytes at p, all of them before `base`: from `head`, then zeros.
BeforeBase(s, p, c) ==
    IF IsSmall(p) /\ ToNat(p) < Len(s.head)
    THEN HeadPart(SubSeq(s.head, ToNat(p) + 1, Min(ToNat(p) + c, Len(s.head))), c)
    ELSE Zeros(c)

AcrossBase(s, p, cnt, c1) == BeforeBase(s, p, c1) \o SubSeq(s.body, 1, cnt - c1)

BodyPart(s, d, cnt) == SubSeq(s.body, d + 1, d + cnt)

ReadBytes(s, p, cnt) ==
    IF cnt = 0 THEN <<>>
    ELSE IF Leq(s.base, p) THEN BodyPart(s, ToNat(Sub64(p, s.base).val), cnt)
    ELSE AcrossBase(s, p, cnt, CountOf(Sub64(s.base, p).val, cnt))

\* Read::read into a buffer of n bytes at position p: the bytes it stores.
ReadAt(s, p, n) == ReadBytes(s, p, ReadCount(s, p, n))

\* A buffer of n zero bytes after a read stored `got` at its front.
Filled(got, n) == got \o Zeros(n - Len(got))

Advance(p, n) == Add64(p, FromNat(n)).val

----------------------------------------------------------------------------
(* Results.  Every function of the program that returns Result<T, _> is an *)
(* operator that yields [tag, val, pos]: tag is "ok", "format"             *)
(* (InvalidFormatError), "unimplemented", "io" (IOError) or "panic" (the   *)
(* thread unwinds), val the value of an "ok", pos the reader's position    *)
(* afterwards.                                                             *)

Ok(v, p) == [tag |-> "ok", val |-> v, pos |-> p]

Err(t, p) == [tag |-> t, val |-> <<>>, pos |-> p]

\* ReadBytesExt::read_u8/u16/u32/u64 are read_exact calls: all n bytes or IOError.
Exactly(got, p, n) ==
    IF Len(got) = n THEN Ok(got, Advance(p, n)) ELSE Err("io", Advance(p, Len(got)))

ReadExact(s, p, n) == Exactly(ReadAt(s, p, n), p, n)

VER_THRESHOLD == FromNat(1000000)

VER_THRESHOLD_KEY == FromNat(1000)

HEADER_SIZE == 9

Widen(r) == IF r.tag = "ok" THEN Ok(Ext(r.val), r.pos) ELSE r

read_as_u64(cond, s, p) == Widen(ReadExact(s, p, IF cond THEN 8 ELSE 4))

\* String::from_utf8_lossy, as a sequence of code points: every maximal
\* invalid part becomes U+FFFD (65533).
IsCont(bs, i) == i <= Len(bs) /\ bs[i] >= 128 /\ bs[i] <= 191

SecondOk(bs, i) ==
    /\ i + 1 <= Len(bs)
    /\ LET b == bs[i]
           c == bs[i + 1]
       IN  CASE b = 224 -> c >= 160 /\ c <= 191
             [] b = 237 -> c >= 128 /\ c <= 159
             [] b = 240 -> c >= 144 /\ c <= 191
             [] b = 244 -> c >= 128 /\ c <= 143
             [] OTHER   -> c >= 128 /\ c <= 191

RECURSIVE Utf8From(_, _)
Utf8From(bs, i) ==
    IF i > Len(bs) THEN <<>>
    ELSE LET b == bs[i]
         IN  CASE b < 128 -> <<b>> \o Utf8From(bs, i + 1)
               [] b >= 194 /\ b <= 223 ->
                    IF IsCont(bs, i + 1)
                    THEN <<(b - 192) * 64 + (bs[i + 1] - 128)>> \o Utf8From(bs, i + 2)
                    ELSE <<65533>> \o Utf8From(bs, i + 1)
               [] b >= 224 /\ b <= 239 ->
                    IF ~SecondOk(bs, i) THEN <<65533>> \o Utf8From(bs, i + 1)
                    ELSE IF ~IsCont(bs, i + 2) THEN <<65533>> \o Utf8From(bs, i + 2)
                    ELSE <<(b - 224) * 4096 + (bs[i + 1] - 128) * 64 + (bs[i + 2] - 128)>>
                         \o Utf8From(bs, i + 3)
               [] b >= 240 /\ b <= 244 ->
                    IF ~SecondOk(bs, i) THEN <<65533>> \o Utf8From(bs, i + 1)
                    ELSE IF ~IsCont(bs, i + 2) THEN <<65533>> \o Utf8From(bs, i + 2)
                    ELSE IF ~IsCont(bs, i + 3) THEN <<65533>> \o Utf8From(bs, i + 3)
                    ELSE <<(b - 240) * 262144 + (bs[i + 1] - 128) * 4096
                            + (bs[i + 2] - 128) * 64 + (bs[i + 3] - 128)>>
                         \o Utf8From(bs, i + 4)
               [] OTHER -> <<65533>> \o Utf8From(bs, i + 1)

from_utf8_lossy(bs) == Utf8From(bs, 1)

\* lib.rs:28-33.  The length byte is a read_exact; the content is one read()
\* into a zeroed buffer of len bytes, whose count is not looked at.
StringOf(len, at, got) == Ok(from_utf8_lossy(Filled(got, len)), Advance(at, Len(got)))

StringBody(s, len) ==
    IF len.tag # "ok" THEN len
    ELSE StringOf(len.val[1], len.pos, ReadAt(s, len.pos, len.val[1]))

read_string(s, p) == StringBody(s, ReadExact(s, p, 1))

----------------------------------------------------------------------------
(* RootKey (entry.rs).                                                     *)

IsWideKey_OffByOne(version, begin) ==
    Leq(VER_THRESHOLD_KEY, version) \/ Less(Two31, begin)

\* entry.rs:47
IsWideKey(version, begin) ==
    Less(VER_THRESHOLD_KEY, version) \/ Leq(Two31, begin)

SeekKeyMismatch_Unchecked(begin, seek_key) == FALSE

\* entry.rs:52
SeekKeyMismatch(begin, seek_key) == begin # seek_key

\* An unsigned +, - of the program: panics in a debug build when the exact
\* result is out of range, wraps in a release build.
Checked(r, bld) == IF r.over /\ bld = "debug" THEN Err("panic", Zero64) ELSE Ok(r.val, Zero64)

\* vec![0; n as usize]: a length above isize::MAX panics (capacity overflow).
VecFits(n) == n[1] < 128

\* entry.rs:58-61: obj_begin, meta_begin and the meta_data buffer.
SpanFits(d) ==
    IF d.tag # "ok" THEN d
    ELSE IF ~VecFits(d.val) THEN Err("panic", Zero64)
    ELSE d

MetaSpan(obj_begin, meta_begin, bld) == SpanFits(Checked(Sub64(obj_begin, meta_begin), bld))

\* entry.rs:65-80: the record, once every field is read.  c holds the results
\* of the reads so far, got the bytes read into meta_data.
KeyRecord(c, got) ==
    Ok([begin      |-> c.begin,
        meta_data  |-> [len |-> c.span, head |-> got],
        obj_begin  |-> c.obj_begin,
        nbytes     |-> Ext(SubSeq(c.fixed, 1, 4)),
        version    |-> Ext(SubSeq(c.fixed, 5, 6)),
        obj_len    |-> Ext(SubSeq(c.fixed, 7, 10)),
        datime     |-> Ext(SubSeq(c.fixed, 11, 14)),
        key_len    |-> Ext(SubSeq(c.fixed, 15, 16)),
        cycle      |-> Ext(SubSeq(c.fixed, 17, 18)),
        seek_key   |-> c.seek_key,
        seek_pdir  |-> c.seek_pdir,
        class_name |-> c.class_name,
        name       |-> c.name,
        title      |-> c.title],
       Advance(c.meta_begin, Len(got)))

\* entry.rs:60-61
KeyMeta(s, c, span) ==
    IF span.tag # "ok" THEN Err("panic", c.meta_begin)
    ELSE KeyRecord([c EXCEPT !.span = span.val],
                   ReadAt(s, c.meta_begin, ToNat(span.val)))

\* entry.rs:58-60
KeyObjBegin(s, c, bld, ob) ==
    IF ob.tag # "ok" THEN Err("panic", c.meta_begin)
    ELSE KeyMeta(s, [c EXCEPT !.obj_begin = ob.val],
                 MetaSpan(ob.val, c.meta_begin, bld))

\* entry.rs:57-59
KeyTitle(s, c, bld, title) ==
    IF title.tag # "ok" THEN title
    ELSE KeyObjBegin(s, [c EXCEPT !.title = title.val, !.meta_begin = title.pos], bld,
                     Checked(Add64(c.begin, Ext(SubSeq(c.fixed, 15, 16))), bld))

\* entry.rs:56
KeyName(s, c, bld, name) ==
    IF name.tag # "ok" THEN name
    ELSE KeyTitle(s, [c EXCEPT !.name = name.val], bld, read_string(s, name.pos))

\* entry.rs:55
KeyClassName(s, c, bld, class_name) ==
    IF class_name.tag # "ok" THEN class_name
    ELSE KeyName(s, [c EXCEPT !.class_name = class_name.val], bld,
                 read_string(s, class_name.pos))

\* entry.rs:50-55: seek_pdir is read, then seek_key is checked.
KeySeekPdir(s, c, bld, sp) ==
    IF sp.tag # "ok" THEN sp
    ELSE IF SeekKeyMismatch(c.begin, c.seek_key) THEN Err("format", sp.pos)
    ELSE KeyClassName(s, [c EXCEPT !.seek_pdir = sp.val], bld, read_string(s, sp.pos))

\* entry.rs:49-50
KeySeekKey(s, c, bld, sk) ==
    IF sk.tag # "ok" THEN sk
    ELSE KeySeekPdir(s, [c EXCEPT !.seek_key = sk.val], bld,
                     read_as_u64(c.wide, s, sk.pos))

\* entry.rs:40-49: nbytes .. cycle are 18 bytes of read_exact calls.
KeyFixed(s, begin, bld, fixed) ==
    IF fixed.tag # "ok" THEN fixed
    ELSE KeySeekKey(s,
                    [begin      |-> begin,
                     fixed      |-> fixed.val,
                     wide       |-> IsWideKey(Ext(SubSeq(fixed.val, 5, 6)), begin),
                     seek_key   |-> Zero64,
                     seek_pdir  |-> Zero64,
                     class_name |-> <<>>,
                     name       |-> <<>>,
                     title      |-> <<>>,
                     meta_begin |-> Zero64,
                     obj_begin  |-> Zero64,
                     span       |-> Zero64],
                    bld,
                    read_as_u64(IsWideKey(Ext(SubSeq(fixed.val, 5, 6)), begin), s, fixed.pos))

\* entry.rs:38-81
RootKeyNew(s, begin, bld) == KeyFixed(s, begin, bld, ReadExact(s, begin, 18))

\* entry.rs:83-85
next_position(k, bld) == Checked(Add64(k.begin, k.nbytes), bld)

\* vec![0; obj_len as usize] and the one read() into it: the count asked for.
RawCount(k) == IF IsSmall(k.obj_len) THEN ToNat(k.obj_len) ELSE 16777215

RawBuffer(k, got) == Ok([len |-> k.obj_len, head |-> got], Advance(k.obj_begin, Len(got)))

\* entry.rs:87-95.  The buffer is obj_len zero bytes; val keeps its length and
\* the bytes the one read() stored at its front.
read_raw_buffer(k, s, p) == RawBuffer(k, ReadAt(s, k.obj_begin, RawCount(k)))

Sum32(sum, bld) ==
    IF Fits32(sum) THEN Ok(sum, Zero64)
    ELSE IF bld = "debug" THEN Err("panic", Zero64)
    ELSE Ok(Wrap32(sum), Zero64)

\* entry.rs:103: self.obj_len + self.key_len as u32, a u32 addition.
PayloadSum(k, bld) == Sum32(Add64(k.obj_len, k.key_len).val, bld)

\* entry.rs:109-139
Classify(header) ==
    IF SubSeq(header, 1, 2) = <<90, 76>>
    THEN IF header[3] # 8 THEN "format" ELSE "ZlibNew"
    ELSE IF SubSeq(header, 1, 2) = <<67, 83>>
    THEN IF header[3] # 8 THEN "format" ELSE "ZlibOld"
    ELSE IF SubSeq(header, 1, 2) = <<88, 90>>
    THEN IF header[3] # 0 THEN "format" ELSE "Lzma"
    ELSE IF SubSeq(header, 1, 2) = <<90, 83>>
    THEN IF header[3] # 0 THEN "format" ELSE "Zstd"
    ELSE "format"

DetectSeek_Missing(k, p) == p

\* entry.rs:101: where detect_stream_kind reads from, given the reader's position.
DetectSeek(k, p) == k.obj_begin

Classified(kind, after) == IF kind = "format" THEN Err("format", after) ELSE Ok(kind, after)

\* entry.rs:106-139
DetectHeader(at, got) == Classified(Classify(Filled(got, HEADER_SIZE)), Advance(at, Len(got)))

\* entry.rs:103-107
DetectAt(k, s, at, sum) ==
    IF sum.tag # "ok" THEN Err("panic", at)
    ELSE IF k.nbytes = sum.val THEN Ok("Uncompressed", at)
    ELSE DetectHeader(at, ReadAt(s, at, HEADER_SIZE))

\* entry.rs:97-140
detect_stream_kind(k, s, p, bld) == DetectAt(k, s, DetectSeek(k, p), PayloadSum(k, bld))

\* entry.rs:155
zlib_offset(kind) == IF kind = "ZlibNew" THEN 2 ELSE 0

Minus(a, n, bld) == IF a.tag # "ok" THEN a ELSE Checked(Sub64(a.val, n), bld)

Plus(a, n, bld) == IF a.tag # "ok" THEN a ELSE Checked(Add64(a.val, n), bld)

\* entry.rs:161-163: nbytes - key_len - HEADER_SIZE - zlib_offset, in u64.
ZlibLimit(k, kind, bld) ==
    Minus(Minus(Minus(Ok(k.nbytes, Zero64), k.key_len, bld), FromNat(HEADER_SIZE), bld),
          FromNat(zlib_offset(kind)), bld)

\* entry.rs:156-158: obj_begin + HEADER_SIZE + zlib_offset, in u64.
ZlibStart(k, kind, bld) ==
    Plus(Plus(Ok(k.obj_begin, Zero64), FromNat(HEADER_SIZE), bld),
         FromNat(zlib_offset(kind)), bld)

\* entry.rs:156-164: the Take over the reader, seeked to start.
ZlibReader(kind, start, limit) ==
    IF start.tag # "ok" THEN Err("panic", kind.pos)
    ELSE IF limit.tag # "ok" THEN Err("panic", start.val)
    ELSE Ok([kind |-> kind.val, start |-> start.val, limit |-> limit.val], start.val)

\* entry.rs:148-171
Dispatch(k, kind, bld) ==
    IF kind.tag # "ok" THEN kind
    ELSE IF kind.val = "Uncompressed"
    THEN Ok([kind |-> kind.val, start |-> k.obj_begin, limit |-> k.obj_len], k.obj_begin)
    ELSE IF kind.val \in {"ZlibNew", "ZlibOld"}
    THEN ZlibReader(kind, ZlibStart(k, kind.val, bld), ZlibLimit(k, kind.val, bld))
    ELSE Err("unimplemented", kind.pos)

\* entry.rs:142-172.  val is the reader it returns: the codec, where its input
\* starts in the stream and the Take limit on it.
decompress(k, s, p, bld) == Dispatch(k, detect_stream_kind(k, s, p, bld), bld)

----------------------------------------------------------------------------
(* RootFile::new (lib.rs:85-150): the header.                              *)

\* lib.rs:96, 100, 153
IsLargeVersion(version) == Leq(VER_THRESHOLD, version)

\* lib.rs:103-104, 134-149: the fields of the RootFile.
HeaderFields(c, got) ==
    Ok([version     |-> c.version,
        begin       |-> c.begin,
        end         |-> c.end,
        seek_free   |-> c.seek_free,
        nbytes_free |-> Ext(SubSeq(c.mid, 1, 4)),
        nfree       |-> Ext(SubSeq(c.mid, 5, 8)),
        nbytes_name |-> Ext(SubSeq(c.mid, 9, 12)),
        units       |-> Ext(SubSeq(c.mid, 13, 13)),
        compress    |-> Ext(SubSeq(c.mid, 14, 17)),
        seek_info   |-> c.seek_info,
        nbytes_info |-> c.nbytes_info,
        uuid        |-> Filled(got, 18)],
       Advance(c.at, Len(got)))

\* lib.rs:101-104
HdrNbytesInfo(s, c, r) ==
    IF r.tag # "ok" THEN r
    ELSE HeaderFields([c EXCEPT !.nbytes_info = Ext(r.val), !.at = r.pos],
                      ReadAt(s, r.pos, 18))

\* lib.rs:100-101
HdrSeekInfo(s, c, r) ==
    IF r.tag # "ok" THEN r
    ELSE HdrNbytesInfo(s, [c EXCEPT !.seek_info = r.val], ReadExact(s, r.pos, 4))

\* lib.rs:97-100: nbytes_free, nfree, nbytes_name, units, compress are 17 bytes.
HdrMid(s, c, r) ==
    IF r.tag # "ok" THEN r
    ELSE HdrSeekInfo(s, [c EXCEPT !.mid = r.val], read_as_u64(c.wide, s, r.pos))

\* lib.rs:96-97
HdrSeekFree(s, c, r) ==
    IF r.tag # "ok" THEN r
    ELSE HdrMid(s, [c EXCEPT !.seek_free = r.val], ReadExact(s, r.pos, 17))

\* lib.rs:96
HdrEnd(s, c, r) ==
    IF r.tag # "ok" THEN r
    ELSE HdrSeekFree(s, [c EXCEPT !.end = r.val], read_as_u64(c.wide, s, r.pos))

\* lib.rs:94-96
HdrVersion(s, r) ==
    IF r.tag # "ok" THEN r
    ELSE HdrEnd(s,
                [version     |-> Ext(SubSeq(r.val, 1, 4)),
                 begin       |-> Ext(SubSeq(r.val, 5, 8)),
                 wide        |-> IsLargeVersion(Ext(SubSeq(r.val, 1, 4))),
                 end         |-> Zero64,
                 seek_free   |-> Zero64,
                 mid         |-> <<>>,
                 seek_info   |-> Zero64,
                 nbytes_info |-> Zero64,
                 at          |-> Zero64],
                read_as_u64(IsLargeVersion(Ext(SubSeq(r.val, 1, 4))), s, r.pos))

\* lib.rs:87-94
HdrMagic(s, got) ==
    IF Filled(got, 4) # <<114, 111, 111, 116>> THEN Err("format", FromNat(Len(got)))
    ELSE HdrVersion(s, ReadExact(s, FromNat(Len(got)), 8))

\* lib.rs:86-104: val holds the header fields, pos the position after the uuid.
ReadHeader(s) == HdrMagic(s, ReadAt(s, Zero64, 4))

\* lib.rs:132-149: the RootFile that new returns.
MakeRootFile(h, ks) == [header |-> h, keys |-> <<>>]

\* lib.rs:152-154
is_large_file(f) == IsLargeVersion(f.header.version)

----------------------------------------------------------------------------
(* The input streams.  A stream is written from a header variant and a     *)
(* list of key templates, each encoded at the offset where the previous    *)
(* one ends; the parsers above read the resulting bytes back.              *)

MaxPrefix == 1      \* well-formed keys written before the last key of the body

MaxWalk == 4        \* iterations of the walk followed in one run of new

Builds == {"debug", "release"}

Low(a, w) == SubSeq(a, 9 - w, 8)

Plain ==
    [ver     |-> FromNat(1000),      \* key version
     wide    |-> FALSE,              \* seek_key, seek_pdir written as 8 bytes
     seekOff |-> 0,                  \* seek_key written = offset of the key + seekOff
     strs    |-> <<1, 88, 1, 89, 0>>,     \* class_name "X", name "Y", title ""
     meta    |-> <<>>,
     klenAdj |-> 0,                  \* key_len written = size of the key's head + klenAdj
     objlen  |-> FromNat(3),
     payload |-> <<7, 8, 9>>,
     nbRel   |-> TRUE,               \* nbytes written = (key_len if nbRel) + nbN
     nbN     |-> 3]

PlainWide == [Plain EXCEPT !.ver = FromNat(1001), !.wide = TRUE, !.meta = <<42, 43>>]

ZlibNewKey ==
    [PlainWide EXCEPT !.objlen = FromNat(5), !.nbN = 13, !.meta = <<>>,
                      !.payload = <<90, 76, 8, 1, 0, 0, 5, 0, 0, 120, 156, 3, 0>>]

ZlibOldKey ==
    [Plain EXCEPT !.objlen = FromNat(5), !.nbN = 11,
                  !.payload = <<67, 83, 8, 1, 0, 0, 5, 0, 0, 3, 0>>]

LzmaKey ==
    [Plain EXCEPT !.objlen = FromNat(5), !.nbN = 10,
                  !.payload = <<88, 90, 0, 1, 0, 0, 5, 0, 0, 1>>]

ZstdKey ==
    [Plain EXCEPT !.objlen = FromNat(5), !.nbN = 10,
                  !.payload = <<90, 83, 0, 1, 0, 0, 5, 0, 0, 1>>]

BadTagKey ==
    [Plain EXCEPT !.objlen = FromNat(5), !.nbN = 10,
                  !.payload = <<90, 76, 7, 1, 0, 0, 5, 0, 0, 1>>]

BadMagicKey ==
    [Plain EXCEPT !.objlen = FromNat(5), !.nbN = 10,
                  !.payload = <<65, 66, 8, 1, 0, 0, 5, 0, 0, 1>>]

\* The stream ends two bytes into the compression header.
ShortHeaderKey ==
    [Plain EXCEPT !.objlen = FromNat(5), !.nbN = 10, !.payload = <<88, 90>>]

\* obj_len + key_len does not fit in a u32; nbytes is the wrapped sum.
SumWrapsKey ==
    [Plain EXCEPT !.objlen = <<0, 0, 0, 0, 255, 255, 255, 255>>, !.nbN = -1,
                  !.payload = <<65, 66, 8, 1, 0, 0, 5, 0, 0, 1>>]

ZeroAdvanceKey == [Plain EXCEPT !.nbRel = FALSE, !.nbN = 0]

WrongSeekKey == [Plain EXCEPT !.seekOff = 1]

\* key_len smaller than the fixed fields and strings that the parser consumes.
ShortKeyLenKey == [Plain EXCEPT !.klenAdj = -5]

\* The title announces 5 bytes and the stream ends after 2 of them.
ShortTitleKey ==
    [Plain EXCEPT !.strs = <<1, 88, 1, 89, 5, 97, 98>>, !.klenAdj = 3,
                  !.objlen = FromNat(0), !.payload = <<>>, !.nbN = 0]

BadUtf8Key == [Plain EXCEPT !.strs = <<1, 88, 2, 255, 89, 0>>]

\* A zlib payload in a record whose nbytes is smaller than key_len + 9 + 2.
SmallNbytesKey == [ZlibNewKey EXCEPT !.nbN = 4]

\* Key version 1000 with 8-byte seek fields: well-formed only at offsets >= 2^31.
NarrowVerWideKey == [Plain EXCEPT !.wide = TRUE]

ParticleKey ==
    [ZlibOldKey EXCEPT !.strs = <<1, 88, 13, 80, 97, 114, 116, 105, 99, 108, 101, 95,
                                  115, 105, 122, 101, 0>>,
                       !.objlen = <<0, 0, 0, 0, 128, 0, 0, 0>>]

PrefixKeys == {PlainWide, ParticleKey}

LastKeys ==
    {Plain, PlainWide, ZlibNewKey, ZlibOldKey, LzmaKey, ZstdKey, BadTagKey, BadMagicKey,
     ShortHeaderKey, SumWrapsKey, ZeroAdvanceKey, WrongSeekKey, ShortKeyLenKey,
     ShortTitleKey, BadUtf8Key, SmallNbytesKey, NarrowVerWideKey, ParticleKey}

HeadLen(t) == 18 + (IF t.wide THEN 16 ELSE 8) + Len(t.strs) + Len(t.meta)

EncodeKey(t, at) ==
    LET klen == HeadLen(t) + t.klenAdj
        nb   == (IF t.nbRel THEN klen ELSE 0) + t.nbN
        w    == IF t.wide THEN 8 ELSE 4
    IN  Low(FromNat(nb), 4) \o Low(t.ver, 2) \o Low(t.objlen, 4) \o <<1, 2, 3, 4>>
        \o Low(FromNat(klen), 2) \o <<0, 1>>
        \o Low(Advance(at, t.seekOff), w) \o Low(FromNat(100), w)
        \o t.strs \o t.meta \o t.payload

RECURSIVE EncodeBody(_, _)
EncodeBody(ts, at) ==
    IF ts = <<>> THEN <<>>
    ELSE EncodeKey(Head(ts), at)
         \o EncodeBody(Tail(ts), Advance(at, Len(EncodeKey(Head(ts), at))))

HeaderVariants ==
    {[magic |-> m, version |-> v, begin |-> b] :
        m \in {<<114, 111, 111, 116>>},
        v \in {FromNat(999999), FromNat(1000000)},
        b \in {FromNat(100), Two31}}
    \cup {[magic |-> <<114, 111, 111, 122>>, version |-> FromNat(1000000),
           begin |-> FromNat(100)]}

EncodeHeader(h, end) ==
    LET w == IF Leq(FromNat(1000000), h.version) THEN 8 ELSE 4
    IN  h.magic \o Low(h.version, 4) \o Low(h.begin, 4)
        \o Low(end, w) \o Low(FromNat(77), w)
        \o <<0, 0, 0, 5, 0, 0, 0, 1, 0, 0, 0, 9, 4, 0, 0, 0, 101>>
        \o Low(FromNat(88), w) \o <<0, 0, 0, 6>>
        \o <<1, 2, 3, 4, 5, 6, 7, 8, 9, 10, 11, 12, 13, 14, 15, 16, 17, 18>>

MakeStream(h, ts) ==
    [head |-> EncodeHeader(h, Advance(h.begin, Len(EncodeBody(ts, h.begin)))),
     base |-> h.begin,
     body |-> EncodeBody(ts, h.begin),
     len  |-> Advance(h.begin, Len(EncodeBody(ts, h.begin)))]

RECURSIVE SeqsUpTo(_, _)
SeqsUpTo(S, n) ==
    IF n = 0 THEN {<<>>}
    ELSE SeqsUpTo(S, n - 1) \cup {Append(q, x) : q \in SeqsUpTo(S, n - 1), x \in S}

Bodies ==
    SeqsUpTo(PrefixKeys, MaxPrefix)
    \cup {Append(q, x) : q \in SeqsUpTo(PrefixKeys, MaxPrefix), x \in LastKeys}

----------------------------------------------------------------------------
(* The state machine.                                                      *)

NoResult == [tag |-> "none"]

NoParse == [begin |-> Zero64, res |-> [tag |-> "none"]]

NoOp == [kind |-> "none", key |-> 0, retry |-> FALSE, away |-> FALSE, res |-> [tag |-> "none"]]

Init ==
    /\ build \in Builds
    /\ \E h \in HeaderVariants, ts \in Bodies : stream = MakeStream(h, ts)
    /\ pos = Zero64
    /\ pc = "start"
    /\ hdr = <<>>
    /\ pointer = Zero64
    /\ keys = <<>>
    /\ records = <<>>
    /\ tot_len = Zero64
    /\ result = NoResult
    /\ parse = NoParse
    /\ op = NoOp

OpenWith(r) ==
    /\ pos' = r.pos
    /\ IF r.tag = "ok"
       THEN /\ hdr' = r.val
            /\ pointer' = r.val.begin
            /\ pc' = "walk"
            /\ result' = result
       ELSE /\ hdr' = hdr
            /\ pointer' = pointer
            /\ pc' = "done"
            /\ result' = [tag |-> r.tag]

\* lib.rs:86-109
OpenHeader ==
    /\ pc = "start"
    /\ OpenWith(ReadHeader(stream))
    /\ UNCHANGED <<build, stream, keys, records, tot_len, parse, op>>

\* lib.rs:114: key.name == "Particle_size"
IsParticleSize(k) ==
    k.name = <<80, 97, 114, 116, 105, 99, 108, 101, 95, 115, 105, 122, 101>>

\* lib.rs:117: tot_len += key.obj_len, a u32 addition.
AddTotLen(t, k, bld) ==
    IF ~IsParticleSize(k) THEN Ok(t, Zero64) ELSE Sum32(Add64(t, k.obj_len).val, bld)

\* lib.rs:111: the loop condition.
WalkGoesOn(p, end) == Less(p, end)

\* lib.rs:113-119: the key is parsed; np is its next_position, tl the new tot_len.
WalkPush(key, np, tl) ==
    /\ records' = Append(records, key)
    /\ IF np.tag # "ok" \/ tl.tag # "ok"
       THEN /\ pc' = "done"
            /\ result' = [tag |-> "panic"]
            /\ UNCHANGED <<pointer, keys, tot_len>>
       ELSE /\ pointer' = np.val
            /\ tot_len' = tl.val
            /\ keys' = Append(keys, key)
            /\ UNCHANGED <<pc, result>>

\* lib.rs:112: RootKey::new(&mut reader, pointer)?
WalkWith(k) ==
    /\ parse' = [begin |-> pointer, res |-> k]
    /\ pos' = k.pos
    /\ IF k.tag # "ok"
       THEN /\ pc' = "done"
            /\ result' = [tag |-> k.tag]
            /\ UNCHANGED <<pointer, keys, records, tot_len>>
       ELSE WalkPush(k.val, next_position(k.val, build), AddTotLen(tot_len, k.val, build))

\* lib.rs:111-120: one iteration of the walk.
WalkStep ==
    /\ pc = "walk"
    /\ WalkGoesOn(pointer, hdr.end)
    /\ Len(keys) < MaxWalk
    /\ WalkWith(RootKeyNew(stream, pointer, build))
    /\ UNCHANGED <<build, stream, hdr, op>>

\* lib.rs:122-149: the loop is over, new returns the RootFile.
WalkEnd ==
    /\ pc = "walk"
    /\ ~WalkGoesOn(pointer, hdr.end)
    /\ pc' = "done"
    /\ result' = [tag |-> "ok", file |-> MakeRootFile(hdr, keys)]
    /\ keys' = <<>>
    /\ UNCHANGED <<build, stream, pos, hdr, pointer, records, tot_len, parse, op>>

Done(kind, i, r) ==
    /\ op' = [kind  |-> kind,
              key   |-> i,
              retry |-> op.kind = kind /\ op.key = i /\ op.res.tag \notin {"ok", "none"},
              away  |-> pos # records[i].obj_begin,
              res   |-> r]
    /\ pos' = r.pos
    /\ UNCHANGED <<build, stream, pc, hdr, pointer, keys, records, tot_len, result, parse>>

\* The payload operations, on any record RootKey::new has returned and the
\* reader it was read from, in any order and any number of times.
ReadRaw(i) ==
    /\ pc = "done"
    /\ Done("raw", i, read_raw_buffer(records[i], stream, pos))

Detect(i) ==
    /\ pc = "done"
    /\ Done("detect", i, detect_stream_kind(records[i], stream, pos, build))

Decompress(i) ==
    /\ pc = "done"
    /\ Done("decompress", i, decompress(records[i], stream, pos, build))

\* The bytes the Take of the reader `w` can hand out.
TakeCount(s, w) ==
    ReadCount(s, w.start, IF IsSmall(w.limit) THEN ToNat(w.limit) ELSE 16777215)

\* The caller reads the reader decompress returned to its end: the Take hands
\* out at most `limit` bytes of the stream from `start` on.
ReadDecoded ==
    /\ pc = "done"
    /\ op.kind = "decompress"
    /\ op.res.tag = "ok"
    /\ pos' = Advance(op.res.val.start, TakeCount(stream, op.res.val))
    /\ op' = [NoOp EXCEPT !.kind = "read", !.key = op.key]
    /\ UNCHANGED <<build, stream, pc, hdr, pointer, keys, records, tot_len, result, parse>>

Next ==
    \/ OpenHeader
    \/ WalkStep
    \/ WalkEnd
    \/ \E i \in 1..Len(records) : ReadRaw(i)
    \/ \E i \in 1..Len(records) : Detect(i)
    \/ \E i \in 1..Len(records) : Decompress(i)
    \/ ReadDecoded

Spec == Init /\ [][Next]_vars

----------------------------------------------------------------------------
(* Properties.  What the stream holds is read here straight from its       *)
(* bytes, with the width rules written out, not through the parsers.       *)

HeaderRead == DOMAIN hdr # {}

Parsed == parse.res.tag # "none"

\* The header's version field, and the width the rule gives its offsets.
StoredFileVersion == Ext(ReadAt(stream, FromNat(4), 4))

FileRuleWide == ~Less(StoredFileVersion, FromNat(1000000))

FileRuleWidth == IF FileRuleWide THEN 8 ELSE 4

\* The fields of the key stored at b, and the width the rule gives seek_key.
StoredKeyVersion(b) == Ext(ReadAt(stream, Advance(b, 4), 2))

StoredKeyLen(b) == Ext(ReadAt(stream, Advance(b, 14), 2))

KeyRuleWide(b) == Less(FromNat(1000), StoredKeyVersion(b)) \/ ~Less(b, Two31)

KeyRuleWidth(b) == IF KeyRuleWide(b) THEN 8 ELSE 4

SeekReadable(b) ==
    Len(ReadAt(stream, b, 18 + 2 * KeyRuleWidth(b))) = 18 + 2 * KeyRuleWidth(b)

StoredSeekKey(b) == Ext(ReadAt(stream, Advance(b, 18), KeyRuleWidth(b)))

StoredSeekPdir(b) ==
    Ext(ReadAt(stream, Advance(b, 18 + KeyRuleWidth(b)), KeyRuleWidth(b)))

\* The three strings of the key stored at b.
StringAfter(r) == IF r.tag = "ok" THEN read_string(stream, r.pos) ELSE r

FirstString(b) == read_string(stream, Advance(b, 18 + 2 * KeyRuleWidth(b)))

SecondString(b) == StringAfter(FirstString(b))

ThirdString(b) == StringAfter(SecondString(b))

\* The string at p announces more bytes than the stream has left.
ShortOf(len) == len.tag = "ok" /\ ReadCount(stream, len.pos, len.val[1]) < len.val[1]

ShortAt(p) == ShortOf(ReadExact(stream, p, 1))

ShortAfter(r) == r.tag = "ok" /\ ShortAt(r.pos)

AnyStringShort(b) ==
    \/ ShortAt(Advance(b, 18 + 2 * KeyRuleWidth(b)))
    \/ ShortAfter(FirstString(b))
    \/ ShortAfter(SecondString(b))

ReachedStrings(b) == Parsed /\ SeekReadable(b) /\ StoredSeekKey(b) = b

Same(a, b) == a.tag = b.tag /\ (a.tag = "ok" => a.val = b.val)

\* C1: after a successful open the File holds one KeyRecord for every
\* directory entry the walk parsed, in scan order.
C1_FileHoldsKeys == result.tag = "ok" => result.file.keys = records

\* C2: a key record whose next_position is not beyond its own begin makes
\* open fail with a format error; the walk does not go on from it.
C2_ZeroAdvanceFails ==
    (parse.res.tag = "ok"
        /\ ~Less(parse.begin, Add64(parse.res.val.begin, parse.res.val.nbytes).val))
    => result.tag = "format"

\* C3: every record RootKey::new returned has seek_key = begin, and a stored
\* seek_key that differs from begin makes the parse, and open, fail with a
\* format error.
C3_SeekKeyChecked ==
    /\ \A i \in 1..Len(records) : records[i].seek_key = records[i].begin
    /\ \A i \in 1..Len(keys) : keys[i].seek_key = keys[i].begin
    /\ (Parsed /\ SeekReadable(parse.begin) /\ StoredSeekKey(parse.begin) # parse.begin)
       => (parse.res.tag = "format" /\ result.tag = "format")

\* A key with a wrong seek_key, after a well-formed one, was refused.
C3_Witness ==
    /\ Len(records) >= 1
    /\ parse.res.tag = "format"
    /\ result.tag = "format"
    /\ StoredSeekKey(parse.begin) # parse.begin

\* C4: end, seek_free and seek_info are the 8-byte fields of the header iff
\* version >= 1000000 (else the 4-byte ones) and is_large_file says which;
\* seek_key and seek_pdir are the 8-byte fields of the key iff its version
\* > 1000 or its begin >= 2^31, so that the parse fails with a format error
\* exactly when the seek_key of that width differs from begin.
C4_WidthRule ==
    /\ HeaderRead =>
        /\ hdr.end = Ext(ReadAt(stream, FromNat(12), FileRuleWidth))
        /\ hdr.seek_free = Ext(ReadAt(stream, FromNat(12 + FileRuleWidth), FileRuleWidth))
        /\ hdr.seek_info = Ext(ReadAt(stream, FromNat(29 + 2 * FileRuleWidth), FileRuleWidth))
    /\ result.tag = "ok" => (is_large_file(result.file) <=> FileRuleWide)
    /\ parse.res.tag = "ok" =>
        /\ parse.res.val.seek_key = StoredSeekKey(parse.begin)
        /\ parse.res.val.seek_pdir = StoredSeekPdir(parse.begin)
    /\ (Parsed /\ SeekReadable(parse.begin)) =>
        (parse.res.tag = "format" <=> StoredSeekKey(parse.begin) # parse.begin)

\* A key of version 1000 at offset 2^31 of a file of version 1000000 was
\* parsed, with 8-byte offsets in both.
C4_Witness ==
    /\ parse.res.tag = "ok"
    /\ parse.begin = Two31
    /\ parse.res.val.version = FromNat(1000)
    /\ parse.res.val.seek_pdir = FromNat(100)
    /\ hdr.version = FromNat(1000000)
    /\ Less(Two31, hdr.end)

\* The codec table of the specification, on a 9-byte header.
TableSays(h) ==
    CASE h[1] = 90 /\ h[2] = 76 /\ h[3] = 8 -> "ZlibNew"
      [] h[1] = 67 /\ h[2] = 83 /\ h[3] = 8 -> "ZlibOld"
      [] h[1] = 88 /\ h[2] = 90 /\ h[3] = 0 -> "Lzma"
      [] h[1] = 90 /\ h[2] = 83 /\ h[3] = 0 -> "Zstd"
      [] OTHER -> "format"

Answers(res, kind) ==
    IF kind = "format" THEN res.tag = "format" ELSE res.tag = "ok" /\ res.val = kind

\* C5: detect_stream_kind returns Uncompressed iff nbytes = obj_len + key_len,
\* and otherwise what the table says of the header at obj_begin: a codec, or
\* a format error.
C5_ClassifiedByTable ==
    op.kind = "detect" =>
        IF records[op.key].nbytes
             = Add64(records[op.key].obj_len, records[op.key].key_len).val
        THEN Answers(op.res, "Uncompressed")
        ELSE Answers(op.res,
                     TableSays(Filled(ReadAt(stream, records[op.key].obj_begin, 9), 9)))

\* C6: the begins of the keys the walk has listed are strictly increasing; no
\* two records of the list have the same begin.
C6_BeginsIncrease ==
    \A i, j \in 1..Len(keys) : i < j => Less(keys[i].begin, keys[j].begin)

\* C7: when the three strings end beyond obj_begin = begin + key_len the parse
\* fails with a format error, and the parse never aborts.
C7_NegativeSpanIsFormatError ==
    /\ parse.res.tag # "panic"
    /\ (ReachedStrings(parse.begin)
          /\ ThirdString(parse.begin).tag = "ok"
          /\ Less(Add64(parse.begin, StoredKeyLen(parse.begin)).val,
                  ThirdString(parse.begin).pos))
       => parse.res.tag = "format"

\* C8: detect_stream_kind and read_raw_buffer return what they return on a
\* freshly opened stream (position 0), wherever the earlier operations left
\* the reader.
C8_PositionIndependent ==
    /\ op.kind = "detect" =>
         Same(op.res, detect_stream_kind(records[op.key], stream, Zero64, build))
    /\ op.kind = "raw" =>
         Same(op.res, read_raw_buffer(records[op.key], stream, Zero64))

\* A detect_stream_kind that failed is tried again, with the reader elsewhere
\* than at obj_begin, and fails the same way.
C8_Witness ==
    /\ op.kind = "detect"
    /\ op.retry
    /\ op.away
    /\ op.res.tag = "format"

AcceptedKinds == {"Uncompressed", "ZlibNew", "ZlibOld"}

Accepted(d) == d.tag = "ok" /\ d.val \in AcceptedKinds

ExpectedStart(k, kind) ==
    IF kind = "Uncompressed" THEN k.obj_begin
    ELSE Advance(k.obj_begin, 9 + (IF kind = "ZlibNew" THEN 2 ELSE 0))

\* The reader w of key k starts where the table says, and its limit, counted
\* from there, ends exactly at next_position.
ExactWindow(k, w) ==
    /\ w.start = ExpectedStart(k, w.kind)
    /\ ~Add64(w.start, w.limit).over
    /\ Add64(w.start, w.limit).val = Add64(k.begin, k.nbytes).val

\* C9: for every key detect_stream_kind accepts, decompress returns a reader
\* that starts at obj_begin (+ 9, + 2 for ZlibNew) and whose limit is
\* computed without underflow and ends at begin + nbytes.
C9_WindowIsPayloadExtent ==
    (op.kind = "decompress"
        /\ Accepted(detect_stream_kind(records[op.key], stream, Zero64, build)))
    => (op.res.tag = "ok" /\ ExactWindow(records[op.key], op.res.val))

\* C10: a string whose length byte announces more bytes than the stream has
\* left makes the parse fail with an I/O error.
C10_ShortStringFails ==
    (ReachedStrings(parse.begin) /\ AnyStringShort(parse.begin))
    => parse.res.tag = "io"

====
